---- MODULE Spec2Model ----
(***************************************************************************)
(* Company-name -> ticker matching pipeline of ssmitty/production-api.      *)
(*                                                                         *)
(* Strings are TLA+ strings, taken apart character by character with       *)
(* SubSeq/Len/\o.  Python's None / NaN is the value None below, a          *)
(* non-string query value is Num42.  Scores are integers in tenths of a    *)
(* point (1000 = 100.0, 950 = 95.0).                                       *)
(***************************************************************************)
EXTENDS Integers, Sequences, FiniteSets, TLC

VARIABLES
    \* ---- construction / environment ----
    loader,         \* CompanyMatcherService.dataframe_loader was injected
    openai,         \* "absent" | "unavailable" | "available"
    db,             \* rows of the tickers table the loader reads
    \* ---- FuzzyMatcherService / TfidfVectorizerService fields ----
    is_setup,       \* FuzzyMatcherService._is_setup
    last_df_id,     \* FuzzyMatcherService._last_df_id
    vectorizer,     \* TfidfVectorizerService._vectorizer
    \* ---- one match_company call ----
    pc,             \* position of the call
    company_name,   \* the query
    tickers_df,     \* the loaded frame, with its preprocessed_title column
    df_id,          \* id(tickers_df)
    stages,         \* the stages invoked so far, in order
    exact_result,   \* what find_exact_match returned (<<>> is None)
    fuzzy_result,   \* what find_fuzzy_matches returned
    fallback_result,\* what try_openai_fallback returned
    llm_requests,   \* completion requests issued in this call
    llm_response,   \* what the completion request came back with
    result,         \* the MatchResult returned to the caller
    raised,         \* the exception that left match_company, or "none"
    \* ---- name normalizer harness (SpecNorm) ----
    npc,        \* "in" | "once" | "twice"
    nname,      \* the value handed to preprocess_company_name
    nonce,      \* preprocess_company_name(nname)
    ntwice,     \* preprocess_company_name(nonce)
    \* ---- strong-match filter harness (SpecFilter) ----
    fpc,        \* "in" | "done"
    fmatches,   \* the list handed to filter_strong_matches
    fstrong,    \* filter_strong_matches(fmatches)
    \* ---- requests served at once by one matcher (SpecConc) ----
    tpc,        \* per request: position inside find_fuzzy_matches
    tname,      \* per request: company_name
    tdf,        \* per request: its own tickers_df
    tid,        \* per request: id(tickers_df)
    tused,      \* per request: the vectorizer its candidates were scored with
    traised,    \* per request: the exception that ended it, or "none"
    \* ---- one call of a function on a drawn argument (SpecRank, SpecClean) ----
    hpc,        \* "in" | "done"
    hin,        \* the argument
    hout,       \* the value returned
    \* ---- update cycle of the tickers table (SpecUpdate) ----
    upc,        \* position inside update_tickers
    ufetched,   \* what fetch_ticker_dataframe returned
    last_updated,\* metadata row 'last_updated' (<<>> while there is none)
    clock,      \* pd.Timestamp.now
    ustatus,    \* HTTP status of the last update_tickers response
    usnap       \* table and timestamp as they were when the cycle began

envvars == <<loader, openai, db>>
vecvars == <<is_setup, last_df_id, vectorizer>>
callvars == <<pc, company_name, tickers_df, df_id, stages, exact_result,
              fuzzy_result, fallback_result, llm_requests, llm_response, result,
              raised>>
nvars == <<npc, nname, nonce, ntwice>>
fvars == <<fpc, fmatches, fstrong>>
tvars == <<tpc, tname, tdf, tid, tused, traised>>
hvars == <<hpc, hin, hout>>
uvars == <<upc, ufetched, last_updated, clock, ustatus, usnap>>
vars == <<envvars, vecvars, callvars, nvars, fvars, tvars, hvars, uvars>>

(***************************************************************************)
(* Values                                                                  *)
(***************************************************************************)
None == "<None>"
Num42 == "<42>"
IsString(v) == v \notin {None, Num42}

(***************************************************************************)
(* Character-level helpers (Python str methods)                            *)
(***************************************************************************)
Chr(s, i) == SubSeq(s, i, i)

UPPER == "ABCDEFGHIJKLMNOPQRSTUVWXYZ"
LOWER == "abcdefghijklmnopqrstuvwxyz"
DIGITS == "0123456789"
WHITESPACE == {" ", "\t"}

LowerChar(c) ==
    IF \E i \in 1..26 : Chr(UPPER, i) = c
    THEN Chr(LOWER, CHOOSE i \in 1..26 : Chr(UPPER, i) = c)
    ELSE c

RECURSIVE str_lower(_)
str_lower(text) ==
    IF text = "" THEN "" ELSE LowerChar(Chr(text, 1)) \o str_lower(Tail(text))

endswith(text, suffix) ==
    /\ Len(text) >= Len(suffix)
    /\ SubSeq(text, Len(text) - Len(suffix) + 1, Len(text)) = suffix

startswith(text, prefix) ==
    /\ Len(text) >= Len(prefix)
    /\ SubSeq(text, 1, Len(prefix)) = prefix

RECURSIVE lstrip(_)
lstrip(text) ==
    IF text # "" /\ Chr(text, 1) \in WHITESPACE THEN lstrip(Tail(text)) ELSE text

RECURSIVE rstrip(_)
rstrip(text) ==
    IF text # "" /\ Chr(text, Len(text)) \in WHITESPACE
    THEN rstrip(SubSeq(text, 1, Len(text) - 1))
    ELSE text

strip(text) == rstrip(lstrip(text))

(***************************************************************************)
(* Name normalizer                                                         *)
(***************************************************************************)
convert_to_lowercase(text) == str_lower(text)

IsAlnumOrSpace(c) ==
    \/ c = " "
    \/ \E i \in 1..26 : Chr(LOWER, i) = c
    \/ \E i \in 1..10 : Chr(DIGITS, i) = c

RECURSIVE clean_to_alphanumeric(_)
clean_to_alphanumeric(text) ==
    IF text = "" THEN ""
    ELSE (IF IsAlnumOrSpace(Chr(text, 1)) THEN Chr(text, 1) ELSE "")
         \o clean_to_alphanumeric(Tail(text))

COMPANY_SUFFIXES ==
    << " inc", " corporation", " corp", " ltd", " llc", " co",
       " - common stock", "- common stock", " common stock",
       " incorporated", " plc", " group", " holdings", " company",
       " companies", " lp", " ag", " sa", " nv", " spa", " srl",
       " limited", " the", " and", " of", " dba", " llp", " pty",
       " s p a", " s a" >>

RECURSIVE StripSuffixesFrom(_, _)
StripSuffixesFrom(text, k) ==
    IF k > Len(COMPANY_SUFFIXES) THEN text
    ELSE LET suffix == COMPANY_SUFFIXES[k]
         IN  StripSuffixesFrom(
                 IF endswith(text, suffix)
                 THEN SubSeq(text, 1, Len(text) - Len(suffix))
                 ELSE text,
                 k + 1)

remove_company_suffixes(text) == StripSuffixesFrom(text, 1)

\* re.sub(r"\s+", " ", text): every run of whitespace becomes one space
RECURSIVE CollapseWhitespace(_, _)
CollapseWhitespace(text, inRun) ==
    IF text = "" THEN ""
    ELSE IF Chr(text, 1) \in WHITESPACE
         THEN (IF inRun THEN "" ELSE " ") \o CollapseWhitespace(Tail(text), TRUE)
         ELSE Chr(text, 1) \o CollapseWhitespace(Tail(text), FALSE)

normalize_whitespace(text) == strip(CollapseWhitespace(text, FALSE))

preprocess_company_name(name) ==
    IF ~IsString(name) THEN name
    ELSE normalize_whitespace(
             remove_company_suffixes(
                 clean_to_alphanumeric(
                     convert_to_lowercase(name))))

(***************************************************************************)
(* Fund / ETF keyword test                                                 *)
(***************************************************************************)
contains(text, sub) ==
    \E i \in 1..(Len(text) - Len(sub) + 1) : SubSeq(text, i, i + Len(sub) - 1) = sub

ETF_KEYWORDS ==
    << "etf", "fund", "trust", "index", "spdr", "ishares", "vanguard",
       "invesco", "direxion", "proshares", "wisdomtree", "first trust",
       "global x", "pacer", "vaneck", "blackrock", "amplify", "ark",
       "bull", "bear", "leveraged", "inverse", "daily", "2x", "3x",
       "ultra", "short", "long" >>

check_etf_keywords(name) ==
    IF ~IsString(name) \/ name = "" THEN FALSE
    ELSE \E k \in 1..Len(ETF_KEYWORDS) : contains(str_lower(name), ETF_KEYWORDS[k])

(***************************************************************************)
(* Outcome tuples                                                          *)
(* (matched_name, predicted_ticker, all_possible_tickers, score, message,  *)
(*  top_matches)                                                           *)
(***************************************************************************)
Outcome(name, ticker, tickers, score, message, top) ==
    [matched_name |-> name, predicted_ticker |-> ticker,
     all_possible_tickers |-> tickers, score |-> score,
     message |-> message, top_matches |-> top]

NOT_IN_LIST == "Company is not in public company list"
NO_DATA == "No ticker data available"
NO_TICKER == "No ticker found for company"
OPENAI_ERROR == "OpenAI service error"

NotFound(message) == Outcome(None, None, <<>>, 0, message, <<>>)

TopMatch(rank, name, ticker, score) ==
    [Rank |-> rank, company_name |-> name, ticker |-> ticker,
     name_match_score |-> score]

\* the indices at which a sequence of booleans holds TRUE, in increasing order
RECURSIVE WhereFrom(_, _)
WhereFrom(mask, k) ==
    IF k > Len(mask) THEN <<>>
    ELSE (IF mask[k] THEN <<k>> ELSE <<>>) \o WhereFrom(mask, k + 1)

Where(mask) == WhereFrom(mask, 1)

\* list(dict.fromkeys(seq)): duplicates removed, first-seen order kept
RECURSIVE Dedup(_)
Dedup(seq) ==
    IF seq = <<>> THEN <<>>
    ELSE LET init == Dedup(SubSeq(seq, 1, Len(seq) - 1))
             last == seq[Len(seq)]
         IN  IF \E i \in 1..Len(init) : init[i] = last THEN init
             ELSE Append(init, last)

\* variant: equal keys in reverse index order
RECURSIVE UnstableDescOrder(_, _)
UnstableDescOrder(keys, rem) ==
    IF rem = {} THEN <<>>
    ELSE LET m == CHOOSE i \in rem :
                      \A j \in rem : keys[i] > keys[j] \/ (keys[i] = keys[j] /\ i >= j)
         IN  <<m>> \o UnstableDescOrder(keys, rem \ {m})

\* indices of keys in non-increasing key order, equal keys in index order
RECURSIVE StableDescOrder(_, _)
StableDescOrder(keys, rem) ==
    IF rem = {} THEN <<>>
    ELSE LET m == CHOOSE i \in rem :
                      \A j \in rem : keys[i] > keys[j] \/ (keys[i] = keys[j] /\ i <= j)
         IN  <<m>> \o StableDescOrder(keys, rem \ {m})

(***************************************************************************)
(* Corpus preparation on the match path                                    *)
(***************************************************************************)
add_preprocessed_column(df) ==
    [i \in 1..Len(df) |->
        [ticker |-> df[i].ticker, title |-> df[i].title,
         preprocessed_title |-> preprocess_company_name(df[i].title)]]

(***************************************************************************)
(* Exact match stage                                                       *)
(***************************************************************************)
ExactMatches(name, df) ==
    Where([i \in 1..Len(df) |->
              IsString(df[i].title) /\ str_lower(df[i].title) = str_lower(name)])

\* variant: the last of the matching rows (exact_matches.iloc[-1])
PickLastExact(exact_matches) == exact_matches[Len(exact_matches)]

\* exact_matches.iloc[0]
PickExact(exact_matches) == exact_matches[1]

find_exact_match(name, df) ==
    LET exact_matches == ExactMatches(name, df)
    IN  IF exact_matches = <<>> THEN <<>>
        ELSE LET first_match == df[PickExact(exact_matches)]
                 ticker == first_match.ticker
                 top == << TopMatch(1, first_match.title, ticker, 1000) >>
             IN  IF ticker = None
                 THEN << Outcome(first_match.title, None, <<>>, 1000, NO_TICKER, top) >>
                 ELSE << Outcome(first_match.title, ticker, <<ticker>>, 1000, None, top) >>

(***************************************************************************)
(* Fuzzy / vector stage                                                    *)
(***************************************************************************)
FUZZY_MATCH_THRESHOLD == 900
EXTRACT_LIMIT == 10
PERFECT_SCORE == 1000

ShareChar(a, b) ==
    \E i \in 1..Len(a) : \E j \in 1..Len(b) : Chr(a, i) = Chr(b, j)

\* What rapidfuzz's default scorer (WRatio) can answer for one choice:
\* 100 for the query itself, 0 when a side is empty or nothing is shared,
\* otherwise some score below 100 (one below the threshold, one on it).
PartialFuzzyScores == {890, 900}

FuzzyScoresFor(query, choice) ==
    IF query = "" \/ choice = "" \/ ~ShareChar(query, choice) THEN {0}
    ELSE IF query = choice THEN {PERFECT_SCORE}
    ELSE PartialFuzzyScores

Choices(title_list) ==
    {title_list[i] : i \in 1..Len(title_list)} \ {None}

\* every scoring of the distinct choices the scorer can produce
FuzzyScorings(query, title_list) ==
    {f \in [Choices(title_list) -> {0, PERFECT_SCORE} \cup PartialFuzzyScores] :
        \A c \in Choices(title_list) : f[c] \in FuzzyScoresFor(query, c)}

\* variant: no limit
NoLimit(a, b) == a

Min(a, b) == IF a <= b THEN a ELSE b

\* process.extract(name_processed, title_list, limit=10):
\* (choice, score, index) for every non-None choice, best score first,
\* equal scores in list order, cut to the limit
process_extract(title_list, score_of) ==
    LET usable == Where([i \in 1..Len(title_list) |-> title_list[i] # None])
        keys == [k \in 1..Len(usable) |-> score_of[title_list[usable[k]]]]
        order == StableDescOrder(keys, 1..Len(usable))
        ranked == [k \in 1..Len(usable) |->
                      << title_list[usable[order[k]]],
                         keys[order[k]],
                         usable[order[k]] - 1 >>]
    IN  SubSeq(ranked, 1, Min(Len(usable), EXTRACT_LIMIT))

\* variant: the threshold itself is not enough
IsAboveThreshold(score) == score > FUZZY_MATCH_THRESHOLD

\* "if score >= settings.FUZZY_MATCH_THRESHOLD:"
IsStrong(score) == score >= FUZZY_MATCH_THRESHOLD

filter_strong_matches(fuzzy_matches) ==
    LET strong == Where([k \in 1..Len(fuzzy_matches) |-> IsStrong(fuzzy_matches[k][2])])
    IN  [k \in 1..Len(strong) |->
            << fuzzy_matches[strong[k]][1], fuzzy_matches[strong[k]][2] >>]

\* ---- TF-IDF vectorizer (char_wb n-grams of size 2..5) ----
\* <<>> is "no vectorizer yet"; otherwise the titles it was fit on, or
\* fitted = FALSE for the object created just before a failed fit.
NoVectorizer == <<>>
Vectorizer(fitted, titles) == << [fitted |-> fitted, titles |-> titles] >>

\* a document contributes n-grams only if it holds a non-blank character
HasWord(doc) == \E i \in 1..Len(doc) : Chr(doc, i) \notin WHITESPACE

\* the exception fit_transform(titles) raises, or "none"
FitError(titles) ==
    IF \E i \in 1..Len(titles) : titles[i] = None THEN "AttributeError"
    ELSE IF \A i \in 1..Len(titles) : ~HasWord(titles[i]) THEN "ValueError"
    ELSE "none"

\* cosine of the query vector and a candidate vector, scaled to tenths:
\* 100 for the query itself when its n-grams are in the vocabulary
PartialVectorScores == {630, 815}

VectorScoresFor(query, company, fit_titles) ==
    IF query = company
    THEN (IF \E i \in 1..Len(fit_titles) : fit_titles[i] = company
          THEN {PERFECT_SCORE} ELSE {0, PERFECT_SCORE})
    ELSE PartialVectorScores

VectorScorings(query, strong_matches, fit_titles) ==
    LET companies == {strong_matches[k][1] : k \in 1..Len(strong_matches)}
    IN  {f \in [companies -> {0, PERFECT_SCORE} \cup PartialVectorScores] :
            \A c \in companies : f[c] \in VectorScoresFor(query, c, fit_titles)}

\* round(x / 2, 1) on tenths, ties to the even tenth
RoundHalf(sum) ==
    IF sum % 2 = 0 THEN sum \div 2
    ELSE LET floor == (sum - 1) \div 2
         IN  IF floor % 2 = 0 THEN floor ELSE floor + 1

RowsTitled(df, company) ==
    Where([i \in 1..Len(df) |-> df[i].preprocessed_title = company])

CandidatesFor(match, df, vector_score, combined) ==
    LET rows == RowsTitled(df, match[1])
    IN  [k \in 1..Len(rows) |->
            [row |-> rows[k], fuzzy_score |-> match[2],
             vector_score |-> vector_score, combined_score |-> combined,
             company_name |-> match[1]]]

RECURSIVE calculate_combined_scores(_, _, _)
calculate_combined_scores(strong_matches, df, vec_of) ==
    IF strong_matches = <<>> THEN <<>>
    ELSE LET m == Head(strong_matches)
             v == vec_of[m[1]]
         IN  CandidatesFor(m, df, v, RoundHalf(m[2] + v))
             \o calculate_combined_scores(Tail(strong_matches), df, vec_of)

RECURSIVE fallback_to_fuzzy_only(_, _)
fallback_to_fuzzy_only(strong_matches, df) ==
    IF strong_matches = <<>> THEN <<>>
    ELSE LET m == Head(strong_matches)
         IN  CandidatesFor(m, df, 0, m[2])
             \o fallback_to_fuzzy_only(Tail(strong_matches), df)

IsPerfectMatch(best_candidate) == best_candidate.combined_score >= PERFECT_SCORE

\* variant: every candidate is kept, perfect score or not
NeverCollapse(is_perfect_match, n) == n

\* "max_candidates = 1 if is_perfect_match else len(candidates)"
MaxCandidates(is_perfect_match, n) == IF is_perfect_match THEN 1 ELSE n

prepare_match_results(candidates, df) ==
    LET n == Len(candidates)
        order == StableDescOrder([k \in 1..n |-> candidates[k].combined_score], 1..n)
        sorted == [k \in 1..n |-> candidates[order[k]]]
        best_candidate == sorted[1]
        best_row == df[best_candidate.row]
        shown == SubSeq(sorted, 1, MaxCandidates(IsPerfectMatch(best_candidate), n))
        kept == Where([i \in 1..Len(shown) |-> df[shown[i].row].ticker # None])
        tickers == [k \in 1..Len(kept) |-> df[shown[kept[k]].row].ticker]
        top == [k \in 1..Len(kept) |->
                   TopMatch(kept[k], df[shown[kept[k]].row].title,
                            df[shown[kept[k]].row].ticker,
                            shown[kept[k]].combined_score)]
    IN  Outcome(best_row.title, best_row.ticker, Dedup(tickers),
                best_candidate.combined_score, None, top)

TitleList(df) == [i \in 1..Len(df) |-> df[i].preprocessed_title]

\* FuzzyMatcherService.find_fuzzy_matches after the vectorizer set-up
fuzzy_outcome(fuzzy_matches, df, vec_of, has_vectorizer) ==
    LET strong_matches == filter_strong_matches(fuzzy_matches)
        candidates == IF has_vectorizer
                      THEN calculate_combined_scores(strong_matches, df, vec_of)
                      ELSE fallback_to_fuzzy_only(strong_matches, df)
    IN  IF strong_matches = <<>>
        THEN Outcome(None, None, <<>>, 0, NOT_IN_LIST, fuzzy_matches)
        ELSE IF candidates = <<>> THEN NotFound(NOT_IN_LIST)
        ELSE prepare_match_results(candidates, df)

(***************************************************************************)
(* LLM fallback stage                                                      *)
(***************************************************************************)
FirstIndex(text, sub) ==
    CHOOSE i \in 1..(Len(text) - Len(sub) + 1) :
        /\ SubSeq(text, i, i + Len(sub) - 1) = sub
        /\ \A j \in 1..(i - 1) : SubSeq(text, j, j + Len(sub) - 1) # sub

RECURSIVE RemoveChar(_, _)
RemoveChar(text, c) ==
    IF text = "" THEN ""
    ELSE (IF Chr(text, 1) = c THEN "" ELSE Chr(text, 1)) \o RemoveChar(Tail(text), c)

\* text.split(sep)[0] and text.split(sep)[1], for a text that contains sep
SplitFirst(text, sep) == SubSeq(text, 1, FirstIndex(text, sep) - 1)
SplitSecond(text, sep) ==
    LET rest == SubSeq(text, FirstIndex(text, sep) + Len(sep), Len(text))
    IN  IF contains(rest, sep) THEN SplitFirst(rest, sep) ELSE rest

prefixes_to_remove == << "Legal Company Name: ", "Best match: ", "Company: ", "Match: " >>

RemovePrefix(text) ==
    IF \E k \in 1..Len(prefixes_to_remove) : startswith(text, prefixes_to_remove[k])
    THEN LET k == CHOOSE k \in 1..Len(prefixes_to_remove) :
                      /\ startswith(text, prefixes_to_remove[k])
                      /\ \A j \in 1..(k - 1) : ~startswith(text, prefixes_to_remove[j])
         IN  strip(SubSeq(text, Len(prefixes_to_remove[k]) + 1, Len(text)))
    ELSE text

TICKER_MARK == " (Ticker:"

\* <<company_name, ticker>>
extract_company_and_ticker(raw) ==
    LET text == RemovePrefix(strip(raw))
    IN  IF contains(text, TICKER_MARK) /\ endswith(text, ")")
        THEN << strip(SplitFirst(text, TICKER_MARK)),
                strip(RemoveChar(SplitSecond(text, TICKER_MARK), ")")) >>
        ELSE << strip(text), None >>

RECURSIVE prepare_openai_candidates(_, _)
prepare_openai_candidates(fallback_matches, df) ==
    IF fallback_matches = <<>> THEN <<>>
    ELSE LET m == Head(fallback_matches)
             rows == RowsTitled(df, m[1])
         IN  (IF rows = <<>> THEN <<>>
              ELSE << [company_name |-> df[rows[1]].title,
                       ticker |-> df[rows[1]].ticker,
                       score |-> m[2]] >>)
             \o prepare_openai_candidates(Tail(fallback_matches), df)

BRAND_SCORE == 950

\* the selected candidate: <<>> is None
process_matching_response(answer, candidates) ==
    LET parsed == extract_company_and_ticker(answer)
        hits == Where([i \in 1..Len(candidates) |->
                          extract_company_and_ticker(candidates[i].company_name)[1]
                          = parsed[1]])
    IN  IF hits # <<>> THEN << candidates[hits[1]] >>
        ELSE IF str_lower(answer) # "none"
        THEN << [company_name |-> parsed[1], ticker |-> parsed[2], score |-> BRAND_SCORE] >>
        ELSE <<>>

\* the collaborator's reply: a message content, or a failed request
LlmRaises == "<raise>"
\* a reply whose message content is None
LlmNoContent == "<no content>"
LlmResponses ==
    {"None", "none", "Apple Inc", "Abc Inc", "Abc Inc (Ticker: ABC)",
     "Best match: None", LlmRaises, LlmNoContent}

\* the exception raised inside find_best_match for this reply, or "none":
\* the request itself fails, or content.strip() on a None content
FallbackError(response) ==
    IF response = LlmRaises THEN "APIError"
    ELSE IF response = LlmNoContent THEN "AttributeError"
    ELSE "none"

\* variant: only value errors are handled
CatchesValueError(error) == error = "ValueError"

\* "except Exception as e:"
Catches(error) == TRUE

try_openai_fallback(response, candidates) ==
    IF FallbackError(response) # "none" THEN NotFound(OPENAI_ERROR)
    ELSE LET openai_result == strip(response)
             selected == process_matching_response(openai_result, candidates)
         IN  IF openai_result = "None" \/ selected = <<>>
             THEN NotFound(NOT_IN_LIST)
             ELSE Outcome(selected[1].company_name, selected[1].ticker,
                          << selected[1].ticker >>, selected[1].score, None,
                          << TopMatch(1, selected[1].company_name,
                                      selected[1].ticker, selected[1].score) >>)

(***************************************************************************)
(* The environment of a match call                                         *)
(***************************************************************************)
MaxRows == 2

Rows ==
    { [ticker |-> "AAPL", title |-> "Apple Inc"],
      [ticker |-> None,   title |-> "APPLE INC"],
      [ticker |-> "APLE", title |-> "Aple Co"],
      [ticker |-> "BND",  title |-> "Bond Fund"],
      [ticker |-> "X",    title |-> "!!!"],
      [ticker |-> "N",    title |-> None] }

Corpora == UNION {[1..n -> Rows] : n \in 0..MaxRows}

Queries == {"apple inc", "Appel", "Apple", "Bond Fund", "  ", Num42}

DfIds == {"0x1", "0x2"}

OpenAIStates == {"absent", "unavailable", "available"}

(***************************************************************************)
(* match_company, one stage per step                                       *)
(***************************************************************************)
IdleCall ==
    /\ pc = "idle"
    /\ company_name = None
    /\ tickers_df = <<>>
    /\ df_id = None
    /\ stages = <<>>
    /\ exact_result = <<>>
    /\ fuzzy_result = <<>>
    /\ fallback_result = <<>>
    /\ llm_requests = 0
    /\ llm_response = None
    /\ result = <<>>
    /\ raised = "none"

NormOff ==
    /\ npc = "off"
    /\ nname = None
    /\ nonce = None
    /\ ntwice = None

FilterOff ==
    /\ fpc = "off"
    /\ fmatches = <<>>
    /\ fstrong = <<>>

\* the requests of SpecConc: two worker threads of the Flask application
Threads == {1, 2}

ThreadsOff ==
    /\ tpc = [t \in Threads |-> "off"]
    /\ tname = [t \in Threads |-> None]
    /\ tdf = [t \in Threads |-> <<>>]
    /\ tid = [t \in Threads |-> None]
    /\ tused = [t \in Threads |-> NoVectorizer]
    /\ traised = [t \in Threads |-> "none"]

HarnessOff ==
    /\ hpc = "off"
    /\ hin = <<>>
    /\ hout = <<>>

UpdateOff ==
    /\ upc = "off"
    /\ ufetched = <<>>
    /\ last_updated = <<>>
    /\ clock = 0
    /\ ustatus = 0
    /\ usnap = <<>>

Init ==
    /\ loader \in BOOLEAN
    /\ openai \in OpenAIStates
    /\ db \in Corpora
    /\ is_setup = FALSE
    /\ last_df_id = None
    /\ vectorizer = NoVectorizer
    /\ IdleCall
    /\ NormOff
    /\ FilterOff
    /\ ThreadsOff
    /\ HarnessOff
    /\ UpdateOff

\* _load_ticker_data without an injected loader
BeginNoLoader ==
    /\ pc = "idle"
    /\ ~loader
    /\ \E q \in Queries : company_name' = q
    /\ raised' = "ValueError"
    /\ pc' = "raised"
    /\ UNCHANGED <<tickers_df, df_id, stages, exact_result, fuzzy_result,
                   fallback_result, llm_requests, llm_response, result>>
    /\ UNCHANGED <<envvars, vecvars, nvars, fvars, tvars, hvars, uvars>>

\* load_tickers_dataframe: the rows of the table, or an empty frame when
\* the query failed
LoadedFrames == {db, <<>>}

\* variant: the emptiness test is skipped
NeverEmpty(df) == FALSE

\* "if tickers_df.empty:"
IsEmptyFrame(df) == df = <<>>

\* the loaded frame is empty: answered at once, nothing else runs
BeginEmpty ==
    /\ pc = "idle"
    /\ loader
    /\ \E q \in Queries, df \in LoadedFrames :
          /\ IsEmptyFrame(df)
          /\ company_name' = q
    /\ result' = << NotFound(NO_DATA) >>
    /\ pc' = "done"
    /\ UNCHANGED <<tickers_df, df_id, stages, exact_result, fuzzy_result,
                   fallback_result, llm_requests, llm_response, raised>>
    /\ UNCHANGED <<envvars, vecvars, nvars, fvars, tvars, hvars, uvars>>

\* rows loaded and add_preprocessed_column applied
BeginLoaded ==
    /\ pc = "idle"
    /\ loader
    /\ \E q \in Queries, id \in DfIds, df \in LoadedFrames :
          /\ ~IsEmptyFrame(df)
          /\ company_name' = q
          /\ df_id' = id
          /\ tickers_df' = add_preprocessed_column(df)
    /\ pc' = "orchestrate"
    /\ UNCHANGED <<stages, exact_result, fuzzy_result, fallback_result,
                   llm_requests, llm_response, result, raised>>
    /\ UNCHANGED <<envvars, vecvars, nvars, fvars, tvars, hvars, uvars>>

\* orchestrate_matching_strategy: isinstance(name, str)
ValidName(name) == IsString(name)

RejectName ==
    /\ pc = "orchestrate"
    /\ ~ValidName(company_name)
    /\ result' = << NotFound(NOT_IN_LIST) >>
    /\ pc' = "done"
    /\ UNCHANGED <<company_name, tickers_df, df_id, stages, exact_result,
                   fuzzy_result, fallback_result, llm_requests, llm_response, raised>>
    /\ UNCHANGED <<envvars, vecvars, nvars, fvars, tvars, hvars, uvars>>

\* variant: an exact match without a ticker counts as no match
ExactFoundWithTicker(r) == r # <<>> /\ r[1].predicted_ticker # None

\* "if exact_result:"
ExactFound(r) == r # <<>>

ExactStage ==
    /\ pc = "orchestrate"
    /\ ValidName(company_name)
    /\ stages' = Append(stages, "EXACT")
    /\ exact_result' = find_exact_match(company_name, tickers_df)
    /\ IF ExactFound(exact_result')
       THEN result' = exact_result' /\ pc' = "done"
       ELSE result' = result /\ pc' = "fuzzy"
    /\ UNCHANGED <<company_name, tickers_df, df_id, fuzzy_result,
                   fallback_result, llm_requests, llm_response, raised>>
    /\ UNCHANGED <<envvars, vecvars, nvars, fvars, tvars, hvars, uvars>>

\* "if not self._is_setup or self._last_df_id != current_df_id:"
NeedSetup == ~is_setup \/ last_df_id # df_id

\* setup_vectorization fails: the exception leaves match_company
FuzzyStageRaises ==
    /\ pc = "fuzzy"
    /\ NeedSetup
    /\ FitError(TitleList(tickers_df)) # "none"
    /\ stages' = Append(stages, "FUZZY")
    /\ vectorizer' = Vectorizer(FALSE, <<>>)
    /\ raised' = FitError(TitleList(tickers_df))
    /\ pc' = "raised"
    /\ UNCHANGED <<is_setup, last_df_id>>
    /\ UNCHANGED <<company_name, tickers_df, df_id, exact_result, fuzzy_result,
                   fallback_result, llm_requests, llm_response, result>>
    /\ UNCHANGED <<envvars, nvars, fvars, tvars, hvars, uvars>>

\* variant: whatever the fuzzy stage produced is returned
FuzzyAlwaysReturned(r) == TRUE

\* "if fuzzy_result[0] is not None:"
FuzzyFound(r) == r[1].matched_name # None

FuzzyStage ==
    /\ pc = "fuzzy"
    /\ NeedSetup => FitError(TitleList(tickers_df)) = "none"
    /\ stages' = Append(stages, "FUZZY")
    /\ vectorizer' = IF NeedSetup THEN Vectorizer(TRUE, TitleList(tickers_df))
                     ELSE vectorizer
    /\ is_setup' = TRUE
    /\ last_df_id' = df_id
    /\ LET name_processed == preprocess_company_name(company_name)
           title_list == TitleList(tickers_df)
       IN  \E score_of \in FuzzyScorings(name_processed, title_list) :
             LET fuzzy_matches == process_extract(title_list, score_of)
                 strong_matches == filter_strong_matches(fuzzy_matches)
             IN  \E vec_of \in VectorScorings(name_processed, strong_matches,
                                              vectorizer'[1].titles) :
                    /\ strong_matches # <<>> => vectorizer'[1].fitted
                    /\ fuzzy_result' = << fuzzy_outcome(fuzzy_matches, tickers_df,
                                                     vec_of, vectorizer' # NoVectorizer) >>
    /\ IF FuzzyFound(fuzzy_result')
       THEN result' = fuzzy_result' /\ pc' = "done"
       ELSE result' = result /\ pc' = "fallback"
    /\ UNCHANGED <<company_name, tickers_df, df_id, exact_result,
                   fallback_result, llm_requests, llm_response, raised>>
    /\ UNCHANGED <<envvars, nvars, fvars, tvars, hvars, uvars>>

\* variant: the service is used whenever one was injected
FallbackConfigured(service) == service # "absent"

\* "if self.openai_service and self.openai_service.is_available():"
FallbackAvailable(service) == service = "available"

FallbackStage ==
    /\ pc = "fallback"
    /\ FallbackAvailable(openai)
    /\ stages' = Append(stages, "LLM_FALLBACK")
    /\ llm_requests' = llm_requests + 1
    /\ \E response \in LlmResponses :
          /\ llm_response' = response
          /\ IF FallbackError(response) # "none" /\ ~Catches(FallbackError(response))
             THEN /\ raised' = FallbackError(response)
                  /\ pc' = "raised"
                  /\ UNCHANGED <<fallback_result, result>>
             ELSE /\ fallback_result' =
                        << try_openai_fallback(
                               response,
                               prepare_openai_candidates(fuzzy_result[1].top_matches,
                                                         tickers_df)) >>
                  /\ result' = fallback_result'
                  /\ pc' = "done"
                  /\ UNCHANGED raised
    /\ UNCHANGED <<company_name, tickers_df, df_id, exact_result, fuzzy_result>>
    /\ UNCHANGED <<envvars, vecvars, nvars, fvars, tvars, hvars, uvars>>

NoFallback ==
    /\ pc = "fallback"
    /\ ~FallbackAvailable(openai)
    /\ result' = << NotFound(NOT_IN_LIST) >>
    /\ pc' = "done"
    /\ UNCHANGED <<company_name, tickers_df, df_id, stages, exact_result,
                   fuzzy_result, fallback_result, llm_requests, llm_response, raised>>
    /\ UNCHANGED <<envvars, vecvars, nvars, fvars, tvars, hvars, uvars>>

\* the call is over (returned or raised); the matcher waits for the next one
Finish ==
    /\ pc \in {"done", "raised"}
    /\ pc' = "idle"
    /\ company_name' = None
    /\ tickers_df' = <<>>
    /\ df_id' = None
    /\ stages' = <<>>
    /\ exact_result' = <<>>
    /\ fuzzy_result' = <<>>
    /\ fallback_result' = <<>>
    /\ llm_requests' = 0
    /\ llm_response' = None
    /\ result' = <<>>
    /\ raised' = "none"
    /\ UNCHANGED <<envvars, vecvars, nvars, fvars, tvars, hvars, uvars>>

Next ==
    \/ BeginNoLoader
    \/ BeginEmpty
    \/ BeginLoaded
    \/ RejectName
    \/ ExactStage
    \/ FuzzyStageRaises
    \/ FuzzyStage
    \/ FallbackStage
    \/ NoFallback
    \/ Finish

Spec == Init /\ [][Next]_vars

(***************************************************************************)
(* Calls between which the tickers table is replaced                       *)
(***************************************************************************)
ReloadCorpora ==
    { << [ticker |-> "AAPL", title |-> "Apple Inc"] >>,
      << [ticker |-> "APLE", title |-> "Aple Co"] >>,
      << [ticker |-> "X",    title |-> "!!!"] >> }

InitReload ==
    /\ loader \in BOOLEAN
    /\ openai \in OpenAIStates
    /\ db \in ReloadCorpora
    /\ is_setup = FALSE
    /\ last_df_id = None
    /\ vectorizer = NoVectorizer
    /\ IdleCall
    /\ NormOff
    /\ FilterOff
    /\ ThreadsOff
    /\ HarnessOff
    /\ UpdateOff

\* save_tickers_dataframe between two calls: the table holds other rows
ReplaceCorpus ==
    /\ pc = "idle"
    /\ \E rows \in ReloadCorpora :
          /\ rows # db
          /\ db' = rows
    /\ UNCHANGED <<loader, openai>>
    /\ UNCHANGED <<vecvars, callvars, nvars, fvars, tvars, hvars, uvars>>

\* no set-up for this frame, and the vectorizer kept from a failed fit:
\* vectorizer.transform raises as soon as there is a strong match to score
FuzzyStageNotFitted ==
    /\ pc = "fuzzy"
    /\ ~NeedSetup
    /\ ~vectorizer[1].fitted
    /\ \E score_of \in FuzzyScorings(preprocess_company_name(company_name),
                                     TitleList(tickers_df)) :
          filter_strong_matches(
              process_extract(TitleList(tickers_df), score_of)) # <<>>
    /\ stages' = Append(stages, "FUZZY")
    /\ raised' = "NotFittedError"
    /\ pc' = "raised"
    /\ UNCHANGED <<company_name, tickers_df, df_id, exact_result, fuzzy_result,
                   fallback_result, llm_requests, llm_response, result>>
    /\ UNCHANGED <<envvars, vecvars, nvars, fvars, tvars, hvars, uvars>>

NextReload ==
    \/ BeginNoLoader
    \/ BeginEmpty
    \/ BeginLoaded
    \/ RejectName
    \/ ExactStage
    \/ FuzzyStageRaises
    \/ FuzzyStageNotFitted
    \/ FuzzyStage
    \/ FallbackStage
    \/ NoFallback
    \/ Finish
    \/ ReplaceCorpus

SpecReload == InitReload /\ [][NextReload]_vars

(***************************************************************************)
(* The same calls over corpora of rows that share a normalized title       *)
(***************************************************************************)
MaxWide == 3

WideRows ==
    { [ticker |-> "AAPL", title |-> "Apple Inc"],
      [ticker |-> "APC",  title |-> "Apple Corp"],
      [ticker |-> "X",    title |-> "!!!"] }

WideCorpora == [1..MaxWide -> WideRows]

InitWide ==
    /\ loader \in BOOLEAN
    /\ openai \in OpenAIStates
    /\ db \in WideCorpora
    /\ is_setup = FALSE
    /\ last_df_id = None
    /\ vectorizer = NoVectorizer
    /\ IdleCall
    /\ NormOff
    /\ FilterOff
    /\ ThreadsOff
    /\ HarnessOff
    /\ UpdateOff

SpecWide == InitWide /\ [][Next]_vars

(***************************************************************************)
(* The same calls over corpora with as many rows as process.extract keeps,  *)
(* and one more                                                            *)
(***************************************************************************)
PoolRows ==
    << [ticker |-> "APLE", title |-> "Aple Co"],
       [ticker |-> "APLC", title |-> "Aple Corp"],
       [ticker |-> "APLI", title |-> "Aple Inc"],
       [ticker |-> None,   title |-> "Aple Ltd"],
       [ticker |-> "BND",  title |-> "Bond Fund"],
       [ticker |-> "BNDI", title |-> "Bond Fund Inc"],
       [ticker |-> "BNDL", title |-> "Bond Fund Ltd"],
       [ticker |-> "ZQ",   title |-> "Zq Co"],
       [ticker |-> "ZQI",  title |-> "Zq Inc"],
       [ticker |-> "ZQL",  title |-> "Zq Ltd"],
       [ticker |-> "ZQC",  title |-> "Zq Corp"] >>

PoolCorpora ==
    {SubSeq(PoolRows, 1, n) : n \in {EXTRACT_LIMIT, EXTRACT_LIMIT + 1}}
    \cup {Append(SubSeq(PoolRows, 1, EXTRACT_LIMIT), [ticker |-> "N", title |-> None])}

InitPool ==
    /\ loader \in BOOLEAN
    /\ openai \in OpenAIStates
    /\ db \in PoolCorpora
    /\ is_setup = FALSE
    /\ last_df_id = None
    /\ vectorizer = NoVectorizer
    /\ IdleCall
    /\ NormOff
    /\ FilterOff
    /\ ThreadsOff
    /\ HarnessOff
    /\ UpdateOff

SpecPool == InitPool /\ [][Next]_vars

(***************************************************************************)
(* Normalizer harness: preprocess_company_name applied once, then again    *)
(***************************************************************************)
MaxPieces == 3

NamePieces == {"X", "y", " Inc", " corp", " co", " s a", " ", "-", "."}

RECURSIVE NamesOfPieces(_)
NamesOfPieces(n) ==
    IF n = 0 THEN {""}
    ELSE LET shorter == NamesOfPieces(n - 1)
         IN  shorter \cup {s \o p : s \in shorter, p \in NamePieces}

NormInputs == NamesOfPieces(MaxPieces) \cup {None, Num42}

InitNorm ==
    /\ npc = "in"
    /\ nname \in NormInputs
    /\ nonce = None
    /\ ntwice = None
    /\ loader = FALSE
    /\ openai = "absent"
    /\ db = <<>>
    /\ is_setup = FALSE
    /\ last_df_id = None
    /\ vectorizer = NoVectorizer
    /\ IdleCall
    /\ FilterOff
    /\ ThreadsOff
    /\ HarnessOff
    /\ UpdateOff

NormApply ==
    /\ npc = "in"
    /\ nonce' = preprocess_company_name(nname)
    /\ npc' = "once"
    /\ UNCHANGED <<nname, ntwice>>
    /\ UNCHANGED <<envvars, vecvars, callvars, fvars, tvars, hvars, uvars>>

NormReapply ==
    /\ npc = "once"
    /\ ntwice' = preprocess_company_name(nonce)
    /\ npc' = "twice"
    /\ UNCHANGED <<nname, nonce>>
    /\ UNCHANGED <<envvars, vecvars, callvars, fvars, tvars, hvars, uvars>>

NextNorm == NormApply \/ NormReapply

SpecNorm == InitNorm /\ [][NextNorm]_vars

(***************************************************************************)
(* Filter harness: filter_strong_matches applied to a list of matches      *)
(***************************************************************************)
MaxMatches == 3

\* (choice, score, index) triples as process.extract returns them
MatchChoices == {"apple", "aple"}
MatchScores == {0, 890, 899, 900, 901, 1000}

MatchLists ==
    UNION {[1..n -> {<<c, sc>> : c \in MatchChoices, sc \in MatchScores}] :
              n \in 0..MaxMatches}

InitFilter ==
    /\ fpc = "in"
    /\ \E l \in MatchLists :
          fmatches = [k \in 1..Len(l) |-> << l[k][1], l[k][2], k - 1 >>]
    /\ fstrong = <<>>
    /\ loader = FALSE
    /\ openai = "absent"
    /\ db = <<>>
    /\ is_setup = FALSE
    /\ last_df_id = None
    /\ vectorizer = NoVectorizer
    /\ IdleCall
    /\ NormOff
    /\ ThreadsOff
    /\ HarnessOff
    /\ UpdateOff

FilterApply ==
    /\ fpc = "in"
    /\ fstrong' = filter_strong_matches(fmatches)
    /\ fpc' = "done"
    /\ UNCHANGED fmatches
    /\ UNCHANGED <<envvars, vecvars, callvars, nvars, tvars, hvars, uvars>>

NextFilter == FilterApply

SpecFilter == InitFilter /\ [][NextFilter]_vars

(***************************************************************************)
(* Two requests served at once by the one FuzzyMatcherService: each step   *)
(* is one read or write of the fields the requests share                   *)
(***************************************************************************)
ConcQueries == {"Appel", "Apple"}

InitConc ==
    /\ loader = TRUE
    /\ openai \in OpenAIStates
    /\ db \in ReloadCorpora
    /\ is_setup = FALSE
    /\ last_df_id = None
    /\ vectorizer = NoVectorizer
    /\ IdleCall
    /\ NormOff
    /\ FilterOff
    /\ tpc = [t \in Threads |-> "idle"]
    /\ tname = [t \in Threads |-> None]
    /\ tdf = [t \in Threads |-> <<>>]
    /\ tid = [t \in Threads |-> None]
    /\ tused = [t \in Threads |-> NoVectorizer]
    /\ traised = [t \in Threads |-> "none"]
    /\ HarnessOff
    /\ UpdateOff

\* match_api -> match_company: the frame is loaded for this request; the
\* two frames are alive together, so their ids differ
ThreadBegin(t) ==
    /\ tpc[t] = "idle"
    /\ ~IsEmptyFrame(db)
    /\ \E q \in ConcQueries, id \in DfIds :
          /\ \A u \in Threads \ {t} : tid[u] # id
          /\ tname' = [tname EXCEPT ![t] = q]
          /\ tid' = [tid EXCEPT ![t] = id]
    /\ tdf' = [tdf EXCEPT ![t] = add_preprocessed_column(db)]
    /\ tpc' = [tpc EXCEPT ![t] = "exact"]
    /\ UNCHANGED <<tused, traised>>
    /\ UNCHANGED <<envvars, vecvars, callvars, nvars, fvars, hvars, uvars>>

\* the exact stage answers the request, or hands it to find_fuzzy_matches
ThreadExact(t) ==
    /\ tpc[t] = "exact"
    /\ tpc' = [tpc EXCEPT ![t] =
                  IF ExactFound(find_exact_match(tname[t], tdf[t]))
                  THEN "done" ELSE "check"]
    /\ UNCHANGED <<tname, tdf, tid, tused, traised>>
    /\ UNCHANGED <<envvars, vecvars, callvars, nvars, fvars, hvars, uvars>>

\* "if not self._is_setup or self._last_df_id != current_df_id:"
ThreadNeedSetup(t) == ~is_setup \/ last_df_id # tid[t]

ThreadCheck(t) ==
    /\ tpc[t] = "check"
    /\ tpc' = [tpc EXCEPT ![t] = IF ThreadNeedSetup(t) THEN "create" ELSE "score"]
    /\ UNCHANGED <<tname, tdf, tid, tused, traised>>
    /\ UNCHANGED <<envvars, vecvars, callvars, nvars, fvars, hvars, uvars>>

\* "self._vectorizer = TfidfVectorizer(...)": the field holds a new,
\* unfitted object
ThreadCreate(t) ==
    /\ tpc[t] = "create"
    /\ vectorizer' = Vectorizer(FALSE, <<>>)
    /\ tpc' = [tpc EXCEPT ![t] = "fit"]
    /\ UNCHANGED <<is_setup, last_df_id>>
    /\ UNCHANGED <<tname, tdf, tid, tused, traised>>
    /\ UNCHANGED <<envvars, callvars, nvars, fvars, hvars, uvars>>

\* "self._vectorizer.fit_transform(titles)": the object the field holds
\* now is fit on this request's titles
ThreadFit(t) ==
    /\ tpc[t] = "fit"
    /\ FitError(TitleList(tdf[t])) = "none"
    /\ vectorizer' = Vectorizer(TRUE, TitleList(tdf[t]))
    /\ tpc' = [tpc EXCEPT ![t] = "mark"]
    /\ UNCHANGED <<is_setup, last_df_id>>
    /\ UNCHANGED <<tname, tdf, tid, tused, traised>>
    /\ UNCHANGED <<envvars, callvars, nvars, fvars, hvars, uvars>>

\* fit_transform raises before it stores a vocabulary
ThreadFitRaises(t) ==
    /\ tpc[t] = "fit"
    /\ FitError(TitleList(tdf[t])) # "none"
    /\ traised' = [traised EXCEPT ![t] = FitError(TitleList(tdf[t]))]
    /\ tpc' = [tpc EXCEPT ![t] = "raised"]
    /\ UNCHANGED <<tname, tdf, tid, tused>>
    /\ UNCHANGED <<envvars, vecvars, callvars, nvars, fvars, hvars, uvars>>

\* "self._is_setup = True; self._last_df_id = current_df_id"
ThreadMark(t) ==
    /\ tpc[t] = "mark"
    /\ is_setup' = TRUE
    /\ last_df_id' = tid[t]
    /\ tpc' = [tpc EXCEPT ![t] = "score"]
    /\ UNCHANGED vectorizer
    /\ UNCHANGED <<tname, tdf, tid, tused, traised>>
    /\ UNCHANGED <<envvars, callvars, nvars, fvars, hvars, uvars>>

\* the strong matches are scored with self.vectorizer_setup.vectorizer as
\* it is now: transform on an unfitted object raises NotFittedError
ThreadScore(t) ==
    /\ tpc[t] = "score"
    /\ \E score_of \in FuzzyScorings(preprocess_company_name(tname[t]),
                                     TitleList(tdf[t])) :
          LET strong_matches == filter_strong_matches(
                                    process_extract(TitleList(tdf[t]), score_of))
          IN  IF strong_matches = <<>> \/ vectorizer = NoVectorizer
              THEN /\ tpc' = [tpc EXCEPT ![t] = "done"]
                   /\ UNCHANGED <<tused, traised>>
              ELSE IF ~vectorizer[1].fitted
              THEN /\ tpc' = [tpc EXCEPT ![t] = "raised"]
                   /\ traised' = [traised EXCEPT ![t] = "NotFittedError"]
                   /\ UNCHANGED tused
              ELSE /\ tpc' = [tpc EXCEPT ![t] = "done"]
                   /\ tused' = [tused EXCEPT ![t] = vectorizer]
                   /\ UNCHANGED traised
    /\ UNCHANGED <<tname, tdf, tid>>
    /\ UNCHANGED <<envvars, vecvars, callvars, nvars, fvars, hvars, uvars>>

NextConc ==
    \/ \E t \in Threads : ThreadBegin(t)
    \/ \E t \in Threads : ThreadExact(t)
    \/ \E t \in Threads : ThreadCheck(t)
    \/ \E t \in Threads : ThreadCreate(t)
    \/ \E t \in Threads : ThreadFit(t)
    \/ \E t \in Threads : ThreadFitRaises(t)
    \/ \E t \in Threads : ThreadMark(t)
    \/ \E t \in Threads : ThreadScore(t)
    \/ ReplaceCorpus

SpecConc == InitConc /\ [][NextConc]_vars

(***************************************************************************)
(* prepare_match_results on its own, over lists of scored candidates       *)
(***************************************************************************)
RankFrame ==
    add_preprocessed_column(
        << [ticker |-> "AAPL", title |-> "Apple Inc"],
           [ticker |-> "APC",  title |-> "Apple Computer"],
           [ticker |-> None,   title |-> "Apple Hospitality"],
           [ticker |-> "APLE", title |-> "Aple Co"] >>)

\* rows of the frame in the order calculate_combined_scores reached them,
\* no row twice
RowOrders ==
    {o \in UNION {[1..n -> 1..Len(RankFrame)] : n \in 1..Len(RankFrame)} :
        \A i, j \in 1..Len(o) : i # j => o[i] # o[j]}

RankFuzzyScores == {FUZZY_MATCH_THRESHOLD, PERFECT_SCORE}
RankVectorScores == {815, PERFECT_SCORE}

\* the candidates calculate_combined_scores appends, one per row reached
ScoredCandidates ==
    UNION {
        {[k \in 1..Len(o) |->
             [row |-> o[k], fuzzy_score |-> f[k], vector_score |-> v[k],
              combined_score |-> RoundHalf(f[k] + v[k]),
              company_name |-> RankFrame[o[k]].preprocessed_title]] :
            f \in [1..Len(o) -> RankFuzzyScores],
            v \in [1..Len(o) -> RankVectorScores]} :
        o \in RowOrders}

InitRank ==
    /\ hpc = "in"
    /\ hin \in ScoredCandidates
    /\ hout = <<>>
    /\ loader = FALSE
    /\ openai = "absent"
    /\ db = <<>>
    /\ is_setup = FALSE
    /\ last_df_id = None
    /\ vectorizer = NoVectorizer
    /\ IdleCall
    /\ NormOff
    /\ FilterOff
    /\ ThreadsOff
    /\ UpdateOff

RankApply ==
    /\ hpc = "in"
    /\ hout' = << prepare_match_results(hin, RankFrame) >>
    /\ hpc' = "done"
    /\ UNCHANGED hin
    /\ UNCHANGED <<envvars, vecvars, callvars, nvars, fvars, tvars, uvars>>

NextRank == RankApply

SpecRank == InitRank /\ [][NextRank]_vars

(***************************************************************************)
(* try_openai_fallback on its own, over replies and candidate lists        *)
(***************************************************************************)
MaxOffered == 2

\* entries prepare_openai_candidates can build: a corpus row with the fuzzy
\* score of its title, which is below the threshold when the stage is reached
OfferedCandidates ==
    { [company_name |-> "Apple Inc",     ticker |-> "AAPL", score |-> 890],
      [company_name |-> "Alphabet Inc.", ticker |-> "GOOG", score |-> 0],
      [company_name |-> "NONE",          ticker |-> "NNE",  score |-> 0] }

CandidateLists == UNION {[1..n -> OfferedCandidates] : n \in 0..MaxOffered}

FallbackReplies ==
    {"None", "none", "NONE", "Best match: None", "Match: none",
     "Apple Inc", "apple inc", "APPLE, INC.", "Apple Inc (Ticker: AAPL)",
     "Apple", "Alphabet Inc. (Ticker: GOOGL)", "Company: Alphabet",
     LlmRaises, LlmNoContent}

InitFallback ==
    /\ hpc = "in"
    /\ \E r \in FallbackReplies, c \in CandidateLists :
          hin = [response |-> r, candidates |-> c]
    /\ hout = <<>>
    /\ loader = FALSE
    /\ openai = "available"
    /\ db = <<>>
    /\ is_setup = FALSE
    /\ last_df_id = None
    /\ vectorizer = NoVectorizer
    /\ IdleCall
    /\ NormOff
    /\ FilterOff
    /\ ThreadsOff
    /\ UpdateOff

FallbackApply ==
    /\ hpc = "in"
    /\ hout' = << try_openai_fallback(hin.response, hin.candidates) >>
    /\ hpc' = "done"
    /\ UNCHANGED hin
    /\ UNCHANGED <<envvars, vecvars, callvars, nvars, fvars, tvars, uvars>>

NextFallback == FallbackApply

SpecFallback == InitFallback /\ [][NextFallback]_vars

(***************************************************************************)
(* Corpus preparation: the raw listing is filtered into (ticker, title)    *)
(* rows                                                                    *)
(***************************************************************************)
\* 'df[df["assetType"] == "Stock"]'
filter_by_asset_type(df) ==
    LET kept == Where([i \in 1..Len(df) |-> df[i].assetType = "Stock"])
    IN  [k \in 1..Len(kept) |-> df[kept[k]]]

\* "df[~etf_series]"
filter_etfs(df) ==
    LET kept == Where([i \in 1..Len(df) |-> ~check_etf_keywords(df[i].name)])
    IN  [k \in 1..Len(kept) |-> df[kept[k]]]

\* "df.drop_duplicates()": of equal rows the first one stays
remove_duplicates(df) == Dedup(df)

\* 'df.dropna(subset=["symbol", "name"])'
HasMissing(row) == row.symbol = None \/ row.name = None

clean_missing_data(df) ==
    LET kept == Where([i \in 1..Len(df) |-> ~HasMissing(df[i])])
    IN  [k \in 1..Len(kept) |-> df[kept[k]]]

\* 'df.rename(columns={"symbol": "ticker", "name": "title"})' and the
\* final 'df_clean[["ticker", "title"]]'
standardize_columns(df) ==
    [i \in 1..Len(df) |-> [ticker |-> df[i].symbol, title |-> df[i].name]]

validate_data(df) ==
    /\ df # <<>>
    /\ \E i \in 1..Len(df) : df[i].ticker # None
    /\ \E i \in 1..Len(df) : df[i].title # None

\* [raised, frame]: the exception that leaves the pipeline, or the rows
process_raw_ticker_data(raw_df) ==
    LET df_clean == standardize_columns(
                        clean_missing_data(
                            remove_duplicates(
                                filter_etfs(
                                    filter_by_asset_type(raw_df)))))
    IN  IF ~validate_data(df_clean)
        THEN [raised |-> "ValueError", frame |-> <<>>]
        ELSE [raised |-> "none", frame |-> df_clean]

MaxRaw == 3

\* rows of the listing as read from the CSV (an empty field is missing)
RawRows ==
    { [symbol |-> "AAPL", name |-> "Apple Inc",  assetType |-> "Stock"],
      [symbol |-> None,   name |-> "Aple Co",    assetType |-> "Stock"],
      [symbol |-> "N",    name |-> None,         assetType |-> "Stock"],
      [symbol |-> "BND",  name |-> "Bond Fund",  assetType |-> "Stock"],
      [symbol |-> "SPY",  name |-> "Spy",        assetType |-> "ETF"],
      [symbol |-> "MSFT", name |-> "Microsoft",  assetType |-> "Stock"] }

RawFrames == UNION {[1..n -> RawRows] : n \in 0..MaxRaw}

InitClean ==
    /\ hpc = "in"
    /\ hin \in RawFrames
    /\ hout = <<>>
    /\ loader = FALSE
    /\ openai = "absent"
    /\ db = <<>>
    /\ is_setup = FALSE
    /\ last_df_id = None
    /\ vectorizer = NoVectorizer
    /\ IdleCall
    /\ NormOff
    /\ FilterOff
    /\ ThreadsOff
    /\ UpdateOff

CleanApply ==
    /\ hpc = "in"
    /\ hout' = << process_raw_ticker_data(hin) >>
    /\ hpc' = "done"
    /\ UNCHANGED hin
    /\ UNCHANGED <<envvars, vecvars, callvars, nvars, fvars, tvars, uvars>>

NextClean == CleanApply

SpecClean == InitClean /\ [][NextClean]_vars

(***************************************************************************)
(* update_tickers: fetch and prepare the listing, replace the table, stamp *)
(* the metadata                                                            *)
(***************************************************************************)
MaxClock == 4

\* variant: every cycle answers 200
AlwaysSuccess(error) == 200

\* the response of update_tickers: the success body, or the HTTPException
\* raised for whatever exception reached "except Exception"
UpdateStatus(error) == IF error = "none" THEN 200 ELSE 500

MaxListing == 2

\* the listings a cycle can fetch
Listings ==
    UNION {[1..n -> {r \in RawRows : r.symbol \in {"AAPL", "MSFT", "BND"}}] :
              n \in 0..MaxListing}

StoredTables == {<<>>, << [ticker |-> "APLE", title |-> "Aple Co"] >>}

InitUpdate ==
    /\ upc = "idle"
    /\ ufetched = <<>>
    /\ last_updated = <<>>
    /\ clock = 1
    /\ ustatus = 0
    /\ usnap = <<>>
    /\ loader = TRUE
    /\ openai \in OpenAIStates
    /\ db \in StoredTables
    /\ is_setup = FALSE
    /\ last_df_id = None
    /\ vectorizer = NoVectorizer
    /\ IdleCall
    /\ NormOff
    /\ FilterOff
    /\ ThreadsOff
    /\ HarnessOff

\* fetch_listing_data raises (the request fails, the CSV cannot be parsed)
UpdateFetchRaises ==
    /\ upc = "idle"
    /\ clock < MaxClock
    /\ usnap' = << [table |-> db, stamp |-> last_updated] >>
    /\ ustatus' = UpdateStatus("RequestException")
    /\ upc' = "done"
    /\ UNCHANGED <<ufetched, last_updated, clock>>
    /\ UNCHANGED <<envvars, vecvars, callvars, nvars, fvars, tvars, hvars>>

\* fetch_ticker_dataframe: the listing is read and prepared; preparation
\* raises when nothing valid is left
UpdateFetch ==
    /\ upc = "idle"
    /\ clock < MaxClock
    /\ usnap' = << [table |-> db, stamp |-> last_updated] >>
    /\ \E raw_df \in Listings :
          IF process_raw_ticker_data(raw_df).raised # "none"
          THEN /\ ustatus' = UpdateStatus(process_raw_ticker_data(raw_df).raised)
               /\ upc' = "done"
               /\ UNCHANGED ufetched
          ELSE /\ ufetched' = process_raw_ticker_data(raw_df).frame
               /\ upc' = "fetched"
               /\ UNCHANGED ustatus
    /\ UNCHANGED <<last_updated, clock>>
    /\ UNCHANGED <<envvars, vecvars, callvars, nvars, fvars, tvars, hvars>>

\* "if tickers_df.empty:" answers 503; otherwise to_sql(if_exists="replace")
\* puts the prepared rows in place of the table, or fails to reach the
\* database and raises
UpdateSave ==
    /\ upc = "fetched"
    /\ IF IsEmptyFrame(ufetched)
       THEN /\ ustatus' = 503
            /\ upc' = "done"
            /\ UNCHANGED db
       ELSE \/ /\ db' = ufetched
               /\ upc' = "saved"
               /\ UNCHANGED ustatus
            \/ /\ ustatus' = UpdateStatus("OperationalError")
               /\ upc' = "done"
               /\ UNCHANGED db
    /\ UNCHANGED <<loader, openai>>
    /\ UNCHANGED <<ufetched, last_updated, clock, usnap>>
    /\ UNCHANGED <<vecvars, callvars, nvars, fvars, tvars, hvars>>

\* update_last_updated called by save_tickers_dataframe
UpdateStampSaver ==
    /\ upc = "saved"
    /\ \/ /\ last_updated' = << clock >>
          /\ clock' = clock + 1
          /\ upc' = "stamped"
          /\ UNCHANGED ustatus
       \/ /\ ustatus' = UpdateStatus("OperationalError")
          /\ upc' = "done"
          /\ UNCHANGED <<last_updated, clock>>
    /\ UNCHANGED <<ufetched, usnap>>
    /\ UNCHANGED <<envvars, vecvars, callvars, nvars, fvars, tvars, hvars>>

\* update_last_updated called by the route, then the success response
UpdateStampRoute ==
    /\ upc = "stamped"
    /\ \/ /\ last_updated' = << clock >>
          /\ clock' = clock + 1
          /\ ustatus' = UpdateStatus("none")
       \/ /\ ustatus' = UpdateStatus("OperationalError")
          /\ UNCHANGED <<last_updated, clock>>
    /\ upc' = "done"
    /\ UNCHANGED <<ufetched, usnap>>
    /\ UNCHANGED <<envvars, vecvars, callvars, nvars, fvars, tvars, hvars>>

\* the response is sent; the next cycle can begin
UpdateFinish ==
    /\ upc = "done"
    /\ upc' = "idle"
    /\ ufetched' = <<>>
    /\ usnap' = <<>>
    /\ ustatus' = 0
    /\ UNCHANGED <<last_updated, clock>>
    /\ UNCHANGED <<envvars, vecvars, callvars, nvars, fvars, tvars, hvars>>

NextUpdate ==
    \/ UpdateFetchRaises
    \/ UpdateFetch
    \/ UpdateSave
    \/ UpdateStampSaver
    \/ UpdateStampRoute
    \/ UpdateFinish

SpecUpdate == InitUpdate /\ [][NextUpdate]_vars

(***************************************************************************)
(* Properties of a match call                                              *)
(***************************************************************************)
STAGE_ORDER == << "EXACT", "FUZZY", "LLM_FALLBACK" >>

ExactSucceeded == exact_result # <<>>
FuzzyReturned == fuzzy_result # <<>>
FuzzySucceeded == FuzzyReturned /\ fuzzy_result[1].matched_name # None
FallbackSucceeded == fallback_result # <<>> /\ fallback_result[1].matched_name # None

\* C1: the stages run in the order EXACT, FUZZY, LLM_FALLBACK, each at most
\* once and only after every earlier stage returned not-found; the call
\* returns the outcome of the first stage that succeeded, and after any
\* exact match (a ticker-less one included) no later stage is invoked
C1_StagesInOrder ==
    /\ \E n \in 0..Len(STAGE_ORDER) : stages = SubSeq(STAGE_ORDER, 1, n)
    /\ Len(stages) >= 2 => ~ExactSucceeded
    /\ Len(stages) >= 3 => (FuzzyReturned /\ ~FuzzySucceeded)
    /\ ExactSucceeded =>
          (stages = << "EXACT" >> /\ pc = "done" /\ result = exact_result)
    /\ FuzzySucceeded =>
          (stages = << "EXACT", "FUZZY" >> /\ pc = "done" /\ result = fuzzy_result)
    /\ FallbackSucceeded =>
          (stages = STAGE_ORDER /\ pc = "done" /\ result = fallback_result)

C1_Witness ==
    /\ pc = "done"
    /\ stages = << "EXACT" >>
    /\ result[1].predicted_ticker = None
    /\ result[1].message = NO_TICKER

\* the query equals the title of row i when both are lowercased
LowerEq(i) ==
    /\ IsString(tickers_df[i].title)
    /\ str_lower(tickers_df[i].title) = str_lower(company_name)

\* C2: when titles of the corpus equal the query case-insensitively, the
\* call returns the first such row in corpus order, with score 100 and
\* exactly one top match at rank 1, however many such rows there are
C2_ExactFirstMatch ==
    (pc = "done" /\ IsString(company_name)) =>
        \A i \in 1..Len(tickers_df) :
            (LowerEq(i) /\ \A j \in 1..(i - 1) : ~LowerEq(j)) =>
                /\ result[1].matched_name = tickers_df[i].title
                /\ result[1].predicted_ticker = tickers_df[i].ticker
                /\ result[1].score = 1000
                /\ Len(result[1].top_matches) = 1
                /\ result[1].top_matches[1].Rank = 1
                /\ result[1].top_matches[1].company_name = tickers_df[i].title

C2_Witness ==
    /\ pc = "done"
    /\ IsString(company_name)
    /\ \E i, j \in 1..Len(tickers_df) :
          /\ i < j
          /\ LowerEq(i)
          /\ LowerEq(j)
          /\ tickers_df[i].title # tickers_df[j].title
          /\ result[1].matched_name = tickers_df[i].title

\* C3: a completion request is issued only when the exact and the fuzzy
\* stage both returned not-found and the collaborator is available, and
\* then exactly once; with the collaborator absent or unavailable no
\* request is issued and the outcome is not-found, "Company is not in
\* public company list"
C3_LlmRequestOnlyWhenNeeded ==
    /\ llm_requests <= 1
    /\ llm_requests = 1 =>
          (~ExactSucceeded /\ FuzzyReturned /\ ~FuzzySucceeded /\ openai = "available")
    /\ (pc = "done" /\ FuzzyReturned /\ ~FuzzySucceeded) =>
          IF openai = "available"
          THEN llm_requests = 1
          ELSE llm_requests = 0 /\ result = << NotFound(NOT_IN_LIST) >>

C3_Witness ==
    /\ pc = "done"
    /\ llm_requests = 1
    /\ stages = STAGE_ORDER

\* C4: match_company never lets an exception reach its caller, whatever
\* the corpus (duplicate tickers, blank or null titles, titles that all
\* normalize to nothing, no loader) and whatever the query
C4_NeverRaises == raised = "none"

\* a query that is no string, or a string that is blank once trimmed
InvalidQuery(name) == ~IsString(name) \/ strip(name) = ""

FailedShape(outcome) ==
    /\ outcome.matched_name = None
    /\ outcome.predicted_ticker = None
    /\ outcome.all_possible_tickers = <<>>
    /\ outcome.score = 0
    /\ outcome.top_matches = <<>>
    /\ outcome.message # None

\* C5: an invalid query (no string, or blank after trimming) is rejected
\* before any stage runs, and its outcome has the shape of a failed match
C5_InvalidQueryRejected ==
    (pc \in {"fuzzy", "fallback", "done"} /\ InvalidQuery(company_name)) =>
        /\ stages = <<>>
        /\ pc = "done"
        /\ FailedShape(result[1])

\* C6: with an empty loaded corpus the call answers "No ticker data
\* available", score 0, nulls and empty lists, without raising and
\* without normalizing or running a stage
C6_EmptyCorpus ==
    (pc # "idle" /\ loader /\ tickers_df = <<>>) =>
        /\ pc = "done"
        /\ raised = "none"
        /\ result = << Outcome(None, None, <<>>, 0, "No ticker data available", <<>>) >>
        /\ stages = <<>>
        /\ llm_requests = 0

C6_Witness ==
    /\ pc = "done"
    /\ loader
    /\ tickers_df = <<>>
    /\ result[1].message = "No ticker data available"

NoDuplicates(seq) ==
    \A i, j \in 1..Len(seq) : seq[i] = seq[j] => i = j

\* C7: whichever stage produced the outcome, all_possible_tickers holds no
\* null and no duplicate (a successful fallback with a null ticker yields
\* the empty list)
C7_TickersNoNullNoDup ==
    pc = "done" =>
        /\ \A i \in 1..Len(result[1].all_possible_tickers) :
              result[1].all_possible_tickers[i] # None
        /\ NoDuplicates(result[1].all_possible_tickers)

\* the rows of the corpus whose title holds an ETF/fund keyword
FundTitles ==
    {tickers_df[i].title : i \in {k \in 1..Len(tickers_df) :
                                     check_etf_keywords(tickers_df[k].title)}}

\* C8: no row whose title holds an ETF/fund keyword is ever the matched
\* name, a top match or the target of an exact match
C8_NoFundMatched ==
    pc = "done" =>
        /\ result[1].matched_name \notin FundTitles
        /\ \A k \in 1..Len(result[1].top_matches) :
              result[1].top_matches[k].company_name \notin FundTitles
        /\ ExactSucceeded => exact_result[1].matched_name \notin FundTitles

\* C9: normalization is idempotent: normalizing a normalized name changes nothing
C9_NormalizeIdempotent ==
    (npc = "twice" /\ IsString(nname)) => ntwice = nonce

\* C10: when the top combined score of the fuzzy stage is 100.0 or more,
\* all_possible_tickers and top_matches each hold at most one entry
C10_PerfectCollapse ==
    (FuzzySucceeded /\ fuzzy_result[1].score >= 1000) =>
        /\ Len(fuzzy_result[1].all_possible_tickers) <= 1
        /\ Len(fuzzy_result[1].top_matches) <= 1
        /\ pc = "done"
        /\ result = fuzzy_result

\* a perfect fuzzy match found while two rows with tickers share its
\* normalized title
C10_Witness ==
    /\ FuzzySucceeded
    /\ fuzzy_result[1].score >= 1000
    /\ \E i, j \in 1..Len(tickers_df) :
          /\ i < j
          /\ tickers_df[i].preprocessed_title = preprocess_company_name(company_name)
          /\ tickers_df[j].preprocessed_title = preprocess_company_name(company_name)
          /\ tickers_df[i].ticker # None
          /\ tickers_df[j].ticker # None
    /\ Len(result[1].top_matches) = 1

\* positions of fmatches whose score reaches the threshold
AtThreshold == {k \in 1..Len(fmatches) : fmatches[k][2] >= FUZZY_MATCH_THRESHOLD}

\* the j-th such position, in list order
NthAtThreshold(j) ==
    CHOOSE k \in AtThreshold : Cardinality({m \in AtThreshold : m <= k}) = j

\* C11: a fuzzy candidate is strong exactly when its score is at least the
\* threshold (the threshold itself included, anything below excluded), and
\* filtering keeps the order and adds nothing
C11_StrongExactlyAtThreshold ==
    fpc = "done" =>
        /\ Len(fstrong) = Cardinality(AtThreshold)
        /\ \A j \in 1..Len(fstrong) :
              fstrong[j] = << fmatches[NthAtThreshold(j)][1],
                              fmatches[NthAtThreshold(j)][2] >>

C11_Witness ==
    /\ fpc = "done"
    /\ \E i, j, k \in 1..Len(fmatches) :
          /\ i < j /\ j < k
          /\ fmatches[i][2] = FUZZY_MATCH_THRESHOLD
          /\ fmatches[j][2] = FUZZY_MATCH_THRESHOLD - 10
          /\ fmatches[k][2] > FUZZY_MATCH_THRESHOLD
    /\ Len(fstrong) = 2

C13_TopMatchesListEveryCandidate ==
    FuzzySucceeded =>
        /\ Len(fuzzy_result[1].top_matches) >= 1
        /\ \A k \in 1..Len(fuzzy_result[1].top_matches) :
              fuzzy_result[1].top_matches[k].Rank = k
        /\ fuzzy_result[1].top_matches[1].company_name = fuzzy_result[1].matched_name
        /\ fuzzy_result[1].top_matches[1].ticker = fuzzy_result[1].predicted_ticker

\* C15: a successful fallback outcome has score 95.0 and exactly one top
\* match, at rank 1, carrying the selected name and ticker, whether the
\* answer was reconciled to a candidate or taken as a fresh pair
C15_FallbackScore95 ==
    FallbackSucceeded =>
        /\ fallback_result[1].score = 950
        /\ Len(fallback_result[1].top_matches) = 1
        /\ fallback_result[1].top_matches[1].Rank = 1
        /\ fallback_result[1].top_matches[1].company_name = fallback_result[1].matched_name
        /\ fallback_result[1].top_matches[1].ticker = fallback_result[1].predicted_ticker
        /\ fallback_result[1].top_matches[1].name_match_score = 950

\* how many entries of top list the row (title, ticker)
Listed(top, title, ticker) ==
    Cardinality({k \in 1..Len(top) :
                    top[k].company_name = title /\ top[k].ticker = ticker})

\* how many rows of the corpus are (title, ticker)
RowCount(title, ticker) ==
    Cardinality({i \in 1..Len(tickers_df) :
                    tickers_df[i].title = title /\ tickers_df[i].ticker = ticker})

\* C18: the fuzzy stage scores one candidate per matching row, so no row
\* of the corpus is listed in top_matches more often than it occurs
C18_OneCandidatePerRow ==
    FuzzySucceeded =>
        \A i \in 1..Len(tickers_df) :
            Listed(fuzzy_result[1].top_matches,
                   tickers_df[i].title, tickers_df[i].ticker)
                <= RowCount(tickers_df[i].title, tickers_df[i].ticker)

\* C16: a failure while calling the fallback collaborator or processing
\* its reply is caught inside the fallback stage and returned as a
\* not-found outcome with message "OpenAI service error"; it never
\* reaches the caller
C16_FallbackFailureCaught ==
    (llm_requests = 1 /\ llm_response \in {LlmRaises, LlmNoContent}) =>
        /\ pc = "done"
        /\ raised = "none"
        /\ result = << Outcome(None, None, <<>>, 0, "OpenAI service error", <<>>) >>

C16_Witness ==
    /\ pc = "done"
    /\ llm_response = LlmNoContent
    /\ result[1].message = "OpenAI service error"

\* C17: suffix stripping reaches a fixed point: the normalized name ends
\* with none of the configured suffixes, stacked suffixes included
C17_NoSuffixLeft ==
    (npc \in {"once", "twice"} /\ IsString(nname)) =>
        \A k \in 1..Len(COMPANY_SUFFIXES) : ~endswith(nonce, COMPANY_SUFFIXES[k])

\* C14: top_matches of every outcome returned to the caller of
\* match_company holds at most 5 entries
C14_AtMostFiveTopMatches ==
    pc = "done" => Len(result[1].top_matches) <= 5

\* C19: with the corpus replaced between calls, the vector space that
\* scores a request was fit on exactly the normalized titles of the corpus
\* of that request
C19_VectorSpaceOfThisCorpus ==
    FuzzySucceeded =>
        /\ vectorizer # NoVectorizer
        /\ vectorizer[1].fitted
        /\ vectorizer[1].titles = TitleList(tickers_df)

\* C20: two requests served at once by the same matcher never score with a
\* vectorizer that is unfitted or that was fit on another corpus than the
\* request's own: no request ends in NotFittedError, and a request that
\* scored its candidates used a fitted vectorizer whose titles are those of
\* its own frame.
C20_ScoresWithOwnFittedVectorizer ==
    \A t \in Threads :
        /\ traised[t] # "NotFittedError"
        /\ tused[t] # NoVectorizer =>
              tused[t] = Vectorizer(TRUE, TitleList(tdf[t]))

StageInvoked(stage) == \E k \in 1..Len(stages) : stages[k] = stage

\* C21: when the vector space cannot be built for the corpus of the call
\* (fitting fails), the fuzzy stage still returns: no exception leaves it and
\* it hands back an outcome.
C21_FuzzyStageSurvivesFitFailure ==
    (StageInvoked("FUZZY") /\ FitError(TitleList(tickers_df)) # "none") =>
        /\ raised = "none"
        /\ FuzzyReturned

\* candidate k comes before candidate p in the ranking
RankedBefore(c, k, p) ==
    \/ c[k].combined_score > c[p].combined_score
    \/ c[k].combined_score = c[p].combined_score /\ k < p

\* the candidate no other candidate comes before
FirstRanked(c) ==
    CHOOSE b \in 1..Len(c) : \A k \in 1..Len(c) : k # b => RankedBefore(c, b, k)

\* the candidate a top match was made from (tickers of the frame differ)
CandidateOf(c, entry) ==
    CHOOSE k \in 1..Len(c) : RankFrame[c[k].row].ticker = entry.ticker

\* C22: the candidates are ranked by combined_score, highest first, equal
\* scores in the order the candidates were generated; matched_name,
\* predicted_ticker and score are the raw title, the ticker and the
\* combined_score of the first candidate of that ranking, and the rank of
\* every top match is its candidate's place in that ranking.
C22_RankedStableBestFirst ==
    hpc = "done" =>
        LET c == hin
            out == hout[1]
            top == out.top_matches
            best == c[FirstRanked(c)]
        IN  /\ out.matched_name = RankFrame[best.row].title
            /\ out.predicted_ticker = RankFrame[best.row].ticker
            /\ out.score = best.combined_score
            /\ \A i \in 1..Len(top) :
                  LET p == CandidateOf(c, top[i])
                  IN  /\ top[i].name_match_score = c[p].combined_score
                      /\ top[i].Rank =
                            1 + Cardinality({k \in 1..Len(c) : RankedBefore(c, k, p)})
            /\ \A i, j \in 1..Len(top) : i < j => top[i].Rank < top[j].Rank

\* three candidates, the first below the two others, which are tied short
\* of a perfect score: the ranking moves the second to the front
C22_Witness ==
    /\ hpc = "done"
    /\ Len(hin) = 3
    /\ hin[1].combined_score < hin[2].combined_score
    /\ hin[2].combined_score = hin[3].combined_score
    /\ hin[2].combined_score < PERFECT_SCORE
    /\ hout[1].matched_name = RankFrame[hin[2].row].title
    /\ Len(hout[1].top_matches) >= 2

\* the reply as process_matching_response receives it
ReplyGiven == FallbackError(hin.response) = "none"

\* the input candidates whose normalized name is the normalized parsed name
SameNormalizedName(reply, candidates) ==
    Where([i \in 1..Len(candidates) |->
              preprocess_company_name(candidates[i].company_name)
              = preprocess_company_name(extract_company_and_ticker(reply)[1])])

\* C23: when the company name parsed from the reply has, once normalized,
\* the normalized name of an input candidate (they differ at most in case,
\* punctuation or corporate suffix), the outcome carries that candidate's
\* own company name and ticker, not the parsed pair.
C23_ReconciledByNormalizedName ==
    (hpc = "done" /\ ReplyGiven /\ str_lower(strip(hin.response)) # "none") =>
        LET same == SameNormalizedName(strip(hin.response), hin.candidates)
        IN  same # <<>> =>
               \E k \in 1..Len(same) :
                  /\ hout[1].matched_name = hin.candidates[same[k]].company_name
                  /\ hout[1].predicted_ticker = hin.candidates[same[k]].ticker

\* C24: a reply that is the word None in any letter case makes the fallback
\* stage return not-found with the message "Company is not in public
\* company list", a null matched_name, score 0 and empty lists, whatever the
\* candidate list.
C24_NoneReplyIsNotFound ==
    (hpc = "done" /\ ReplyGiven /\ str_lower(strip(hin.response)) = "none") =>
        hout[1] = NotFound(NOT_IN_LIST)

\* the list the orchestrator hands to try_openai_fallback
CandidatesGiven == prepare_openai_candidates(fuzzy_result[1].top_matches, tickers_df)

\* the titles process.extract can choose from
UsableTitles == Where([i \in 1..Len(tickers_df) |-> tickers_df[i].preprocessed_title # None])

\* C25: when no fuzzy candidate reaches the threshold the fuzzy stage returns
\* not-found together with its unfiltered list, which holds at most 10
\* entries; the candidate list for the LLM fallback is built from that list,
\* entry by entry: at most 10 candidates, each with the raw title and ticker
\* of a corpus row whose normalized title is the entry's, and the entry's
\* fuzzy score.
C25_PoolFeedsFallback ==
    (FuzzyReturned /\ ~FuzzySucceeded) =>
        LET out == fuzzy_result[1]
            pool == out.top_matches
        IN  /\ out.predicted_ticker = None
            /\ out.all_possible_tickers = <<>>
            /\ out.score = 0
            /\ out.message = NOT_IN_LIST
            /\ Len(pool) <= EXTRACT_LIMIT
            /\ Len(pool) = Min(Len(UsableTitles), EXTRACT_LIMIT)
            /\ \A k \in 1..Len(pool) : ~IsStrong(pool[k][2])
            /\ Len(CandidatesGiven) = Len(pool)
            /\ \A k \in 1..Len(pool) :
                  \E i \in 1..Len(tickers_df) :
                     /\ tickers_df[i].preprocessed_title = pool[k][1]
                     /\ CandidatesGiven[k] =
                           [company_name |-> tickers_df[i].title,
                            ticker |-> tickers_df[i].ticker,
                            score |-> pool[k][2]]

\* a corpus of more rows than the limit, no strong match, the fallback asked
C25_Witness ==
    /\ pc = "done"
    /\ StageInvoked("LLM_FALLBACK")
    /\ ~FuzzySucceeded
    /\ Len(UsableTitles) > EXTRACT_LIMIT
    /\ Len(CandidatesGiven) = EXTRACT_LIMIT
    /\ \E k \in 1..Len(CandidatesGiven) : CandidatesGiven[k].score > 0

\* a row of the listing that is a stock, no fund by its name, with a title
Retainable(row) ==
    /\ row.assetType = "Stock"
    /\ row.name # None
    /\ ~check_etf_keywords(row.name)

\* C26: preparation drops an entry only for a missing title: when it
\* returns a corpus, every stock of the listing that has a title (and is no
\* fund) is in it with its own ticker, a missing ticker included.
C26_MissingTickerRetained ==
    (hpc = "done" /\ hout[1].raised = "none") =>
        \A i \in 1..Len(hin) :
            Retainable(hin[i]) =>
                \E k \in 1..Len(hout[1].frame) :
                    /\ hout[1].frame[k].title = hin[i].name
                    /\ hout[1].frame[k].ticker = hin[i].symbol

\* C27: preprocess_company_name returns a string for every input, a value
\* that is no string (None, a number) included.
C27_NormalizerReturnsString ==
    npc \in {"once", "twice"} => IsString(nonce)

InCycle == upc \in {"fetched", "saved", "stamped", "done"}

\* C28: within an update cycle the table changes only into the prepared
\* rows, which are validated and not empty, and the timestamp changes only
\* once the table holds them; a cycle that prepared nothing (the fetch
\* failed, or no entry survived) answers with a failure status and leaves
\* table and timestamp as they were; a cycle that answers 200 has replaced
\* the table and advanced the timestamp.
C28_UpdateReplacesOrLeaves ==
    InCycle =>
        /\ db # usnap[1].table => (db = ufetched /\ validate_data(ufetched))
        /\ last_updated # usnap[1].stamp =>
              /\ upc \in {"stamped", "done"}
              /\ db = ufetched
              /\ validate_data(ufetched)
              /\ usnap[1].stamp # <<>> => last_updated[1] > usnap[1].stamp[1]
        /\ (upc = "done" /\ ufetched = <<>>) =>
              /\ ustatus \in {500, 503}
              /\ db = usnap[1].table
              /\ last_updated = usnap[1].stamp
        /\ (upc = "done" /\ ustatus = 200) =>
              /\ db = ufetched
              /\ validate_data(ufetched)
              /\ last_updated # usnap[1].stamp

\* a cycle fails at the fetch after an earlier cycle stored rows and a
\* timestamp: both are still there
C28_Witness ==
    /\ upc = "done"
    /\ ufetched = <<>>
    /\ ustatus = 500
    /\ db # <<>>
    /\ db \notin StoredTables
    /\ last_updated # <<>>
    /\ db = usnap[1].table

\* the fuzzy stage found no strong match and left its unfiltered pool in
\* the sixth field of its result
PoolHandedOver ==
    /\ fuzzy_result # <<>>
    /\ fuzzy_result[1].matched_name = None
    /\ fuzzy_result[1].top_matches # <<>>

\* C29: every outcome that leaves the orchestrator with a null
\* matched_name also has a null predicted_ticker, score 0 and empty
\* all_possible_tickers and top_matches; the unfiltered pool the fuzzy
\* stage handed to the fallback stage is never in the returned outcome,
\* whether the fallback is unavailable, answers None, or fails
C29_FailedOutcomeCarriesNoCandidates ==
    (pc = "done" /\ result[1].matched_name = None) =>
        /\ result[1].predicted_ticker = None
        /\ result[1].score = 0
        /\ result[1].all_possible_tickers = <<>>
        /\ result[1].top_matches = <<>>
        /\ PoolHandedOver => result[1].top_matches # fuzzy_result[1].top_matches

\* the fallback answered None while the fuzzy stage had handed over a pool
C29_Witness ==
    /\ pc = "done"
    /\ PoolHandedOver
    /\ StageInvoked("LLM_FALLBACK")
    /\ llm_response = "None"
    /\ result[1].matched_name = None
    /\ result[1].top_matches = <<>>

\* the pool is dropped as well when no fallback is available
C29_WitnessUnavailable ==
    /\ pc = "done"
    /\ PoolHandedOver
    /\ ~StageInvoked("LLM_FALLBACK")
    /\ result[1].matched_name = None

\* the pool is dropped as well when the fallback request fails
C29_WitnessFails ==
    /\ pc = "done"
    /\ PoolHandedOver
    /\ llm_response = LlmRaises
    /\ result[1].message = OPENAI_ERROR

\* the fallback stage received a reply that is the literal None once a
\* known leading label prefix is stripped
LabelledNoneReply ==
    /\ pc = "done"
    /\ StageInvoked("LLM_FALLBACK")
    /\ FallbackError(llm_response) = "none"
    /\ RemovePrefix(strip(llm_response)) = "None"

\* C30: a fallback reply that is the literal None after a known leading
\* label prefix (such as "Best match: ") is stripped is treated as no
\* match: the fallback stage returns not-found, and no successful outcome
\* reports the word None as matched_name
C30_LabelledNoneIsNotFound ==
    /\ LabelledNoneReply => result[1] = NotFound(NOT_IN_LIST)
    /\ (pc = "done" /\ result[1].matched_name # None) => result[1].matched_name # "None"

\* the unlabelled reply None, for which the stage does return not-found
C30_BareNoneIsNotFound ==
    (LabelledNoneReply /\ strip(llm_response) = "None") =>
        result[1] = NotFound(NOT_IN_LIST)

====
